---- MODULE Spec2Model ----
(***************************************************************************)
(* A model of the Mollie importer: main.py (the import orchestrator),      *)
(* mollie_api.py (the write client with retry, dry-run and deterministic   *)
(* idempotency keys), under Spec; and of list_subscriptions.py (the        *)
(* paginated read client and the fetch of all subscriptions), a script of  *)
(* its own, under ListSpec; of csv_reader.py (read_customers stepped       *)
(* through row by row) under ReadSpec; and of next_same_day_in_year and    *)
(* import_mandate called on their own under CallSpec. Each specification   *)
(* holds the variables of the others fixed.                                *)
(*                                                                         *)
(* Python values are modelled as follows.                                  *)
(*   - str: a TLA+ string; None (where a str is expected) is the string    *)
(*     None below, which no input of the model contains.                   *)
(*   - datetime.date: a record [y, m, d]; None (where a date is expected)  *)
(*     is NoDate.                                                          *)
(*   - float amounts: an integer number of cents.                          *)
(*   - dict: a record.                                                     *)
(*   - hashlib.sha256(s).hexdigest(): the string "sha256(s)", an injective *)
(*     function of s (collision resistance); its 12 character prefix is    *)
(*     the string "sha256(s)[:12]".                                        *)
(***************************************************************************)
EXTENDS Integers, Sequences, FiniteSets, TLC

\* ------------------------------------------------------------------ bounds
\* The longest input (number of rows yielded by read_customers) of a run.
MaxRecords == 2
\* How many times the import is run on the same input.
MaxRuns == 2
\* The longest input against which the server may give every response of
\* Responses; against a longer input it gives one response of each class
\* (CoreResponses), which keeps the runs of several rows enumerable.
RichRows == 1

\* -------------------------------------------------------- python stand-ins
None == "None"
NoDate == [y |-> 0, m |-> 0, d |-> 0]
Absent == [absent |-> TRUE]

\* `x or ""` on an Optional[str]
OrEmpty(x) == IF x = None THEN "" ELSE x

\* ------------------------------------------------------------------- dates
IsLeap(y) == (y % 4 = 0 /\ y % 100 /= 0) \/ (y % 400 = 0)

DaysInMonth(y, m) ==
    IF m = 2 THEN (IF IsLeap(y) THEN 29 ELSE 28)
    ELSE IF m \in {4, 6, 9, 11} THEN 30 ELSE 31

\* datetime.date(y, m, d) succeeds (otherwise it raises ValueError)
ValidDate(y, m, d) == m \in 1..12 /\ d >= 1 /\ d <= DaysInMonth(y, m)

\* a < b on dates
DateLt(a, b) ==
    \/ a.y < b.y
    \/ a.y = b.y /\ a.m < b.m
    \/ a.y = b.y /\ a.m = b.m /\ a.d < b.d

Pad2(n) == IF n < 10 THEN "0" \o ToString(n) ELSE ToString(n)

\* date.isoformat(): YYYY-MM-DD (years of the model have four digits)
isoformat(dt) == ToString(dt.y) \o "-" \o Pad2(dt.m) \o "-" \o Pad2(dt.d)

\* variant: no fallback for February 29
SameDayInWithoutFallback(year, orig) == [y |-> year, m |-> orig.m, d |-> orig.d]

\* date(year, orig.month, orig.day) with the Feb 29 -> Mar 1 fallback; the
\* re-raise branch is dead for a valid orig (only Feb 29 depends on the year).
SameDayIn(year, orig) ==
    IF ValidDate(year, orig.m, orig.d)
    THEN [y |-> year, m |-> orig.m, d |-> orig.d]
    ELSE [y |-> year, m |-> 3, d |-> 1]

\* variant: the candidate of from_date's year is kept even when it has passed
next_same_day_this_year_only(orig_date, from_date) == SameDayIn(from_date.y, orig_date)

next_same_day_in_year(orig_date, from_date) ==
    LET candidate == SameDayIn(from_date.y, orig_date)
    IN  IF DateLt(candidate, from_date)
        THEN SameDayIn(from_date.y + 1, orig_date)
        ELSE candidate

\* f"{amount:.2f}" of an amount given in cents
Fmt2(cents) == ToString(cents \div 100) \o "." \o Pad2(cents % 100)

\* ------------------------------------------------------- idempotency keys
\* variant: a missing part is written out as the text None
RECURSIVE JoinNoneAsText(_)
JoinNoneAsText(parts) ==
    IF Len(parts) = 0 THEN ""
    ELSE IF Len(parts) = 1 THEN parts[1]
    ELSE parts[1] \o "|" \o JoinNoneAsText(Tail(parts))

RECURSIVE Join(_)
\* "|".join([p or "" for p in parts])
Join(parts) ==
    IF Len(parts) = 0 THEN ""
    ELSE IF Len(parts) = 1 THEN OrEmpty(parts[1])
    ELSE OrEmpty(parts[1]) \o "|" \o Join(Tail(parts))

Sha256Hex(s) == "sha256(" \o s \o ")"

\* MollieAPI._deterministic_key(*parts)
deterministic_key(parts) == Sha256Hex(Join(parts))

\* key_source[:12]
Short(key_source) == key_source \o "[:12]"

\* ------------------------------------------------------ the API operations
\* What an API method does before it reaches _post: it either raises, or
\* calls _post(path, payload, idempotency_key). A path is its sequence of
\* segments: "/customers/cst_1/mandates" is <<"customers", "cst_1", "mandates">>.
PostRequest(op, path, payload, key) ==
    [raises |-> FALSE, op |-> op, path |-> path, payload |-> payload,
     key |-> key, exc |-> None, msg |-> None]

RaisesBeforePost(op, exc, msg) ==
    [raises |-> TRUE, op |-> op, path |-> << >>, payload |-> Absent,
     key |-> None, exc |-> exc, msg |-> msg]

NoCall == PostRequest("none", << >>, Absent, None)

\* MollieAPI.create_customer; rows of the model carry no LidNr column, so
\* customer_reference is "" and no metadata is attached.
create_customer(customer) ==
    PostRequest("customer", <<"customers">>,
        [email |-> customer.email,
         name |-> customer.given_name \o " " \o customer.family_name],
        deterministic_key(<<"customer", customer.email>>))

\* MollieAPI.import_mandate: None.isoformat() raises AttributeError
import_mandate(customer_id, mandate) ==
    IF mandate.mandate_signature_date = NoDate
    THEN RaisesBeforePost("mandate", "AttributeError",
                          "'NoneType' object has no attribute 'isoformat'")
    ELSE PostRequest("mandate", <<"customers", customer_id, "mandates">>,
            [method |-> "directdebit",
             consumerName |-> mandate.given_name \o " " \o mandate.family_name,
             consumerAccount |-> mandate.iban,
             mandateReference |-> mandate.mandate_reference,
             signatureDate |-> isoformat(mandate.mandate_signature_date)],
            deterministic_key(<<"mandate", customer_id, mandate.mandate_reference>>))

\* MollieAPI.create_subscription; plan.start_date is a date or NoDate (absent)
create_subscription(customer_id, plan) ==
    LET start_str == IF plan.start_date = NoDate THEN ""
                     ELSE isoformat(plan.start_date)
        amount_str == Fmt2(plan.amount)
    IN  PostRequest("subscription", <<"customers", customer_id, "subscriptions">>,
            [amount |-> [value |-> Fmt2(plan.amount), currency |-> plan.currency],
             interval |-> plan.interval,
             description |-> plan.description,
             startDate |-> IF plan.start_date = NoDate THEN None ELSE start_str],
            deterministic_key(<<"subscription", customer_id, amount_str,
                                plan.interval, start_str>>))

\* --------------------------------------------------------- _post, dry run
\* A response dict as the callers read it.
Json(test, id, resource, idempotency, payload) ==
    [test |-> test, id |-> id, resource |-> resource,
     idempotency |-> idempotency, payload |-> payload]

\* no response dict
NoJson == Json(FALSE, None, None, None, Absent)

\* How a call ends: it returns a response dict or raises an exception.
Returned(value) == [kind |-> "return", value |-> value, exc |-> None, msg |-> None]
Raised(exc, msg) == [kind |-> "raise", value |-> NoJson, exc |-> exc, msg |-> msg]
NoRet == [kind |-> "none", value |-> NoJson, exc |-> None, msg |-> None]

\* the dry-run branch left out: every call goes to the network
DryRunIgnored(t) == FALSE

\* `if self.test:`
DryRun(t) == t

HasSegment(path, seg) == \E i \in 1..Len(path) : path[i] = seg

\* only the customers collection is recognised: the other writes get no id
FakeIdCustomersOnly(path, key) ==
    IF Len(path) > 0 /\ path[Len(path)] = "customers" THEN "cst_" \o Short(key)
    ELSE None

\* the id of the fake response, from the path (the three callers always pass a key)
FakeId(path, key) ==
    IF Len(path) > 0 /\ path[Len(path)] = "customers" THEN "cst_" \o Short(key)
    ELSE IF HasSegment(path, "mandates") THEN "mdt_" \o Short(key)
    ELSE IF HasSegment(path, "subscriptions") THEN "sub_" \o Short(key)
    ELSE None

FakeResponse(c) == Json(TRUE, FakeId(c.path, c.key), None, c.key, c.payload)

\* ---------------------------------------------------------- _post, live
\* max_attempts = 5
max_attempts == 5

\* What one session.post can give: requests.RequestException, or a response
\* with a status, a Retry-After header (None when absent) and a body that is
\* a JSON object, another JSON value ("array") or no JSON at all ("text").
Body(kind, id, resource) == [kind |-> kind, id |-> id, resource |-> resource]

Response(status, retry_after, body) ==
    [net |-> FALSE, status |-> status, retry_after |-> retry_after, body |-> body]

NetError == [net |-> TRUE, status |-> 0, retry_after |-> None,
             body |-> Body("text", None, None)]

NoResp == [net |-> FALSE, status |-> 0, retry_after |-> None,
           body |-> Body("text", None, None)]

Bodies ==
    { Body("object", "cst_1", "customer"),   \* a created resource
      Body("object", None, "customer"),      \* an object without "id"
      Body("object", None, None),            \* an object without "id" and "resource"
      Body("array", None, None),             \* valid JSON, not an object
      Body("text", None, None) }             \* not JSON

RetryAfterValues == {None, "0", "3", "-1", "soon"}

Responses ==
    {Response(st, None, b) : st \in {200, 201}, b \in Bodies}
    \cup {Response(st, None, Body("text", None, None)) : st \in {204, 302, 400, 404}}
    \cup {Response(st, ra, Body("text", None, None)) :
              st \in {429, 500}, ra \in RetryAfterValues}

\* one response of each class _post tells apart: a created resource, a success
\* without an id, a permanent error, a retryable error
CoreResponses ==
    { Response(201, None, Body("object", "cst_1", "customer")),
      Response(200, None, Body("object", None, None)),
      Response(404, None, Body("text", None, None)),
      Response(500, None, Body("text", None, None)) }

\* float(s): the strings of the model that float() accepts, and their values
FloatParses(s) == s \in {"0", "3", "-1"}
FloatOf(s) == IF s = "0" THEN 0 ELSE IF s = "3" THEN 3 ELSE -1

\* One pass through the body of the while loop with outcome r of session.post:
\* either the call ends (ret), or it sleeps `wait` and continues.
Continue(wait) == [retry |-> TRUE, wait |-> wait, ret |-> NoRet]
Ends(ret) == [retry |-> FALSE, wait |-> 0, ret |-> ret]

\* `if resp.status_code in (200, 201):`
IsSuccessStatus(status) == status \in {200, 201}

\* every error status retried, client errors too
IsRetryStatusClientErrors(status) == status >= 400

\* `if resp.status_code >= 500 or resp.status_code == 429:`
IsRetryStatus(status) == status >= 500 \/ status = 429

AttemptOutcome(r, key, cur_backoff) ==
    IF r.net THEN Continue(cur_backoff)
    ELSE IF IsSuccessStatus(r.status) THEN
        IF r.body.kind = "object"
        THEN Ends(Returned(Json(FALSE, r.body.id, r.body.resource, key, Absent)))
        ELSE IF r.body.kind = "text"
        THEN Ends(Returned(Json(FALSE, None, None, key, Absent)))
        ELSE Ends(Raised("TypeError", "list indices must be integers or slices, not str"))
    ELSE IF IsRetryStatus(r.status) THEN
        IF r.retry_after = None THEN Continue(cur_backoff)
        ELSE IF ~FloatParses(r.retry_after)
        THEN Ends(Raised("ValueError", "could not convert string to float"))
        ELSE IF FloatOf(r.retry_after) < 0
        THEN Ends(Raised("ValueError", "sleep length must be non-negative"))
        ELSE Continue(FloatOf(r.retry_after))
    ELSE Ends(Raised("RuntimeError", "Mollie API error"))

\* the backoff grows by one instead of doubling
BackoffAfterLinear(r, b) == b + 1

\* a wait taken from the Retry-After header leaves the backoff as it was
BackoffAfterHintKept(r, b) ==
    IF ~r.net /\ r.retry_after /= None THEN b ELSE b * 2

\* `backoff *= 2` after time.sleep, whether session.post raised (r.net) or
\* gave a 5xx/429 response, with or without a Retry-After header
BackoffAfter(r, b) == b * 2

\* `float(retry_after) if retry_after else backoff` took the header's value
UsesRetryAfter(r) == ~r.net /\ IsRetryStatus(r.status) /\ r.retry_after /= None

\* the loop condition off by one: a sixth pass
LoopContinuesOffByOne(n) == n <= max_attempts

\* `while attempts < max_attempts:`
LoopContinues(n) == n < max_attempts

Exhausted == Raised("RuntimeError", "Failed to POST after 5 attempts")

\* ------------------------------------------------------------- the input
\* Rows as read_customers yields them: Email and IBAN non-empty, Datum
\* Ondertekening a date or None (an empty cell), Bedrag a float.
Row(email, ref, datum, bedrag) ==
    [Email |-> email, Voornaam |-> "A", Naam |-> "B",
     IBAN |-> "NL91ABNA0417164300", MachtigingsID |-> ref,
     Datum |-> datum, Bedrag |-> bedrag]

RowSet ==
    { Row("a@example.com", "ref1", [y |-> 2024, m |-> 6, d |-> 15], 1250),
      Row("b@example.com", "", NoDate, 2500) }

Inputs == UNION {[1..n -> RowSet] : n \in 0..MaxRecords}

\* the days on which the import is run
Days == { [y |-> 2026, m |-> 6, d |-> 10], [y |-> 2026, m |-> 6, d |-> 20] }

\* ------------------------------------------------------------- the state
VARIABLES
    test,           \* MollieAPI.test: dry-run mode (--test)
    rows,           \* the rows read_customers yields, in input order
    today,          \* date.today() during this run
    run,            \* which run of the import on this input this is
    idx,            \* how many rows main's for loop has taken
    pc,             \* "read": main's loop head; "post": inside _post's while
                    \* loop; "ret": an API method has just returned or raised
                    \* into process_customer; "done": the run is over;
                    \* "fatal": main's except branch called sys.exit(1)
    step,           \* the API method process_customer is in
    res,            \* process_customer's result dict
    customer_id,    \* process_customer's customer_id
    start_date,     \* process_customer's start_date (NoDate: None)
    out_rows,       \* main's out_rows
    success_count,  \* main's success_count
    fail_count,     \* main's fail_count
    written,        \* the output file of this run
    prev_written,   \* the output file of the previous run
    call,           \* _post's arguments (path, payload, idempotency_key)
    attempts,       \* _post's attempts
    backoff,        \* _post's backoff
    sleeps,         \* how many time.sleep calls this _post call has made
    lastWait,       \* the argument of its last time.sleep
    hinted,         \* one of its time.sleep calls took a Retry-After value
    sent,           \* what each session.post of the running call was given
    resp,           \* the outcome of its last session.post
    ret,            \* what the API method returned or raised
    calls,          \* the API method calls of the current row: which method,
                    \* whether it reached _post, how it ended
    hist,           \* `calls` of every finished row of this run
    \* list_subscriptions.py
    fpc,            \* "off": the fetcher is not run; "start": before
                    \* get_all_subscriptions; "get": at the head of
                    \* _get_paginated's while loop; "for": at the head of
                    \* get_all_subscriptions' for loop; "end": it returned or raised
    level,          \* who called the running _get_paginated: "customers"
                    \* (get_all_customers) or "subscriptions"
                    \* (get_subscriptions_for_customer)
    next_url,       \* _get_paginated's next_url
    items,          \* _get_paginated's items
    customers,      \* get_all_subscriptions' customers
    ci,             \* how many customers its for loop has taken
    all_subscriptions, \* get_all_subscriptions' all_subscriptions
    result,         \* how get_all_subscriptions ended
    trail,          \* the session.get calls of the running _get_paginated call,
                    \* in order: the url, whether a page came back, its items
                    \* and its next link (the first MaxTrail of them)
    fetches,        \* per customer the for loop has taken: whether its
                    \* subscriptions were requested, whether that fetch failed,
                    \* and the subscriptions the server gave
    \* csv_reader.py
    fieldnames,     \* reader.fieldnames: the column names of the header line
    validate_iban_flag,  \* read_customers' argument of that name
    lines,          \* the data rows of the file, as csv.DictReader gives them
    line_no,        \* how many data rows the for loop of read_customers took
    yielded,        \* the rows read_customers has yielded, in order
    skipped,        \* the numbers i of the rows it skipped (one warning each)
    rpc,            \* "open": before the header is read; "rows": in the for
                    \* loop; "end": the generator is exhausted; "raised": it
                    \* raised KeyError
    \* direct calls of next_same_day_in_year and MollieAPI.import_mandate
    sig_date,       \* the orig_date given to next_same_day_in_year
    ref_date,       \* the from_date given to it
    next_day,       \* what it returned (NoDate before the call)
    owner_ids,      \* the customer_id given to each of two import_mandate calls
    mandates,       \* the mandate dict given to each
    mandate_calls   \* the requests the import_mandate calls made so far built

\* the variables of main.py and mollie_api.py
ivars == <<test, rows, today, run, idx, pc, step, res, customer_id, start_date,
           out_rows, success_count, fail_count, written, prev_written, call,
           attempts, backoff, sleeps, lastWait, hinted, sent, resp, ret, calls,
           hist>>

\* the variables of list_subscriptions.py
fvars == <<fpc, level, next_url, items, customers, ci, all_subscriptions,
           result, trail, fetches>>

\* the variables of csv_reader.py
rvars == <<fieldnames, validate_iban_flag, lines, line_no, yielded, skipped, rpc>>

\* the variables of the direct calls
cvars == <<sig_date, ref_date, next_day, owner_ids, mandates, mandate_calls>>

\* no function is called directly
CallsOff ==
    /\ sig_date = NoDate
    /\ ref_date = NoDate
    /\ next_day = NoDate
    /\ owner_ids = << >>
    /\ mandates = << >>
    /\ mandate_calls = << >>

vars == <<ivars, fvars, rvars, cvars>>

EmptyResult ==
    [customer |-> Absent, mandate |-> Absent, subscription |-> Absent,
     errors |-> << >>, subscription_startDate |-> None]

NoFile == [exists |-> FALSE, rows |-> << >>]

\* how get_all_subscriptions ended: it returned a list or raised
NoResult == [kind |-> "none", exc |-> None, value |-> << >>]

\* list_subscriptions.py is not run
FetcherOff ==
    /\ fpc = "off"
    /\ level = "none"
    /\ next_url = None
    /\ items = << >>
    /\ customers = << >>
    /\ ci = 0
    /\ all_subscriptions = << >>
    /\ result = NoResult
    /\ trail = << >>
    /\ fetches = << >>

\* csv_reader.REQUIRED_COLUMNS
REQUIRED_COLUMNS ==
    {"Email", "Voor naam", "Naam", "IBAN", "MachtigingsID", "Datum Ondertekening",
     "Bedrag"}

\* header lines: the export's columns, the export without its Bedrag column,
\* and an empty file
Headers == { REQUIRED_COLUMNS, REQUIRED_COLUMNS \ {"Bedrag"}, {} }

\* variant: the header is not looked at
MissingColumnsNotLookedAt(headers) == {}

\* missing = [c for c in REQUIRED_COLUMNS if c not in headers]
MissingColumns(headers) == {c \in REQUIRED_COLUMNS : c \notin headers}

\* read_customers itself is not stepped through: main takes its rows from `rows`
ReaderOff ==
    /\ validate_iban_flag = TRUE
    /\ lines = << >>
    /\ line_no = 0
    /\ yielded = << >>
    /\ skipped = << >>
    /\ rpc = "off"

Init ==
    /\ fieldnames \in Headers
    /\ ReaderOff
    /\ CallsOff
    /\ test \in BOOLEAN
    /\ rows \in Inputs
    /\ today \in Days
    /\ run = 1
    /\ idx = 0
    /\ pc = "read"
    /\ step = "none"
    /\ res = EmptyResult
    /\ customer_id = None
    /\ start_date = NoDate
    /\ out_rows = << >>
    /\ success_count = 0
    /\ fail_count = 0
    /\ written = NoFile
    /\ prev_written = NoFile
    /\ call = NoCall
    /\ attempts = 0
    /\ backoff = 1
    /\ sleeps = 0
    /\ lastWait = 0
    /\ hinted = FALSE
    /\ sent = << >>
    /\ resp = NoResp
    /\ ret = NoRet
    /\ calls = << >>
    /\ hist = << >>
    /\ FetcherOff

\* bool(s) of an Optional[str]
Truthy(s) == s /= None /\ s /= ""

RECURSIVE JoinErrors(_)
\* "; ".join(errors)
JoinErrors(errors) ==
    IF Len(errors) = 0 THEN ""
    ELSE IF Len(errors) = 1 THEN errors[1]
    ELSE errors[1] \o "; " \o JoinErrors(Tail(errors))

\* the errors of the row ignored
StatusAlwaysOk(errors) == "ok"

\* `if res.get("errors"):` in main
StatusOf(errors) == IF Len(errors) > 0 THEN "failed" ELSE "ok"

\* an exception is not seen as a failure: the steps after it still run
CaughtExceptionNever(rt) == FALSE

\* `except Exception as exc:` around an API call in process_customer
CaughtException(rt) == rt.kind = "raise"

\* the customer id is never looked at
UsableIdAlways(cid) == TRUE

\* `if not customer_id:` does not hold
UsableId(cid) == Truthy(cid)

\* main: the out dict built from process_customer's result
OutRow(email, r) ==
    [email |-> email,
     customer_id |-> IF r.customer /= Absent THEN OrEmpty(r.customer.id) ELSE "",
     customer_idempotency |->
         IF r.customer /= Absent THEN OrEmpty(r.customer.idempotency) ELSE "",
     mandate_id |-> IF r.mandate /= Absent THEN OrEmpty(r.mandate.id) ELSE "",
     mandate_idempotency |->
         IF r.mandate /= Absent THEN OrEmpty(r.mandate.idempotency) ELSE "",
     subscription_id |->
         IF r.subscription /= Absent THEN OrEmpty(r.subscription.id) ELSE "",
     subscription_idempotency |->
         IF r.subscription /= Absent THEN OrEmpty(r.subscription.idempotency) ELSE "",
     subscription_startDate |-> OrEmpty(r.subscription_startDate),
     status |-> StatusOf(r.errors),
     error |-> IF StatusOf(r.errors) = "failed" THEN JoinErrors(r.errors) ELSE ""]

\* the last call of the row has ended the way ret says
Closed ==
    [calls EXCEPT ![Len(calls)] =
        [@ EXCEPT !.outcome = ret.kind, !.id = ret.value.id,
                  !.resource = ret.value.resource]]

\* An API method is called with the request c it builds: it raises before
\* _post, or _post returns the fake response at once (dry run), or _post
\* enters its retry loop.
Invoke(c, closed, r, cid, sd) ==
    /\ calls' = Append(closed, [op |-> c.op, posted |-> ~c.raises,
                                 outcome |-> "pending", id |-> None,
                                 resource |-> None])
    /\ step' = c.op
    /\ call' = c
    /\ res' = r
    /\ customer_id' = cid
    /\ start_date' = sd
    /\ attempts' = 0
    /\ backoff' = 1
    /\ sleeps' = 0
    /\ lastWait' = 0
    /\ hinted' = FALSE
    /\ sent' = << >>
    /\ resp' = NoResp
    /\ IF c.raises THEN pc' = "ret" /\ ret' = Raised(c.exc, c.msg)
       ELSE IF DryRun(test) THEN pc' = "ret" /\ ret' = Returned(FakeResponse(c))
       ELSE pc' = "post" /\ ret' = NoRet
    /\ UNCHANGED <<test, rows, today, run, out_rows, success_count, fail_count,
                   written, prev_written, hist, fvars, rvars, cvars>>

\* variant: the counter goes up for every row
CountedEveryRow(count, hit) == count + 1

\* success_count += 1 / fail_count += 1 in the branch the row's status takes
Counted(count, hit) == IF hit THEN count + 1 ELSE count

\* process_customer returns r; main appends the row's outcome and counts it,
\* and its for loop goes on from row next_idx.
FinishRecord(r, closed, next_idx) ==
    /\ out_rows' = Append(out_rows, OutRow(rows[idx].Email, r))
    /\ fail_count' = Counted(fail_count, StatusOf(r.errors) = "failed")
    /\ success_count' = Counted(success_count, StatusOf(r.errors) /= "failed")
    /\ idx' = next_idx
    /\ hist' = Append(hist, closed)
    /\ calls' = << >>
    /\ pc' = "read"
    /\ step' = "none"
    /\ res' = EmptyResult
    /\ customer_id' = None
    /\ start_date' = NoDate
    /\ call' = NoCall
    /\ attempts' = 0
    /\ backoff' = 1
    /\ sleeps' = 0
    /\ lastWait' = 0
    /\ hinted' = FALSE
    /\ sent' = << >>
    /\ resp' = NoResp
    /\ ret' = NoRet
    /\ UNCHANGED <<test, rows, today, run, written, prev_written, fvars, rvars, cvars>>

\* a failed row ends the loop: the rows after it are never processed
FinishAbortsOnFailure(r, closed) ==
    FinishRecord(r, closed, IF StatusOf(r.errors) = "failed" THEN Len(rows) ELSE idx)

\* the loop body of main after process_customer: whatever the row's result,
\* the loop goes on with the next row
Finish(r, closed) == FinishRecord(r, closed, idx)

\* what session.post can give in this run
ServerAlphabet ==
    IF Len(rows) <= RichRows THEN Responses \cup {NetError} ELSE CoreResponses

\* main's for loop takes the next row; process_customer calls create_customer.
NextRow ==
    /\ pc = "read"
    /\ MissingColumns(fieldnames) = {}
    /\ idx < Len(rows)
    /\ idx' = idx + 1
    /\ LET row == rows[idx + 1]
       IN  Invoke(create_customer([email |-> row.Email, given_name |-> row.Voornaam,
                                   family_name |-> row.Naam, customer_reference |-> ""]),
                  << >>, EmptyResult, None, NoDate)

\* variant: every attempt sends a key of its own
SessionPostFreshKey(c, n) ==
    [url |-> <<"https://api.mollie.com/v2">> \o c.path, json |-> c.payload,
     headers |-> [Idempotency_Key |-> c.key \o "-" \o ToString(n)], timeout |-> 10]

\* session.post(url, json=payload, headers=headers, timeout=10) of attempt n
\* of the call c: url, payload and headers are built once, before the loop
SessionPost(c, n) ==
    [url |-> <<"https://api.mollie.com/v2">> \o c.path, json |-> c.payload,
     headers |-> [Idempotency_Key |-> c.key], timeout |-> 10]

\* One pass through _post's while loop: session.post, then return, raise, or
\* sleep and go round again; leaving the loop after max_attempts raises.
PostAttempt ==
    /\ pc = "post"
    /\ LoopContinues(attempts)
    /\ \E r \in ServerAlphabet :
        LET a == AttemptOutcome(r, call.key, backoff)
        IN  /\ attempts' = attempts + 1
            /\ resp' = r
            /\ IF a.retry
               THEN /\ sleeps' = sleeps + 1
                    /\ lastWait' = a.wait
                    /\ backoff' = BackoffAfter(r, backoff)
                    /\ hinted' = (hinted \/ UsesRetryAfter(r))
                    /\ IF LoopContinues(attempts + 1)
                       THEN pc' = "post" /\ ret' = NoRet
                       ELSE pc' = "ret" /\ ret' = Exhausted
               ELSE /\ pc' = "ret"
                    /\ ret' = a.ret
                    /\ UNCHANGED <<sleeps, lastWait, backoff, hinted>>
    /\ sent' = Append(sent, SessionPost(call, attempts + 1))
    /\ UNCHANGED <<test, rows, today, run, idx, step, res, customer_id, start_date,
                   out_rows, success_count, fail_count, written, prev_written,
                   call, calls, hist, fvars, rvars, cvars>>

\* process_customer after api.create_customer
CustomerReturn ==
    /\ pc = "ret"
    /\ step = "customer"
    /\ LET row == rows[idx]
       IN  IF CaughtException(ret)
           THEN Finish([res EXCEPT !.errors = Append(@, ret.msg)], Closed)
           ELSE LET r1 == [res EXCEPT !.customer = ret.value]
                    cid == IF Truthy(ret.value.id) THEN ret.value.id
                           ELSE ret.value.resource
                IN  IF ~UsableId(cid)
                    THEN Finish(r1, Closed)
                    ELSE /\ Invoke(import_mandate(cid,
                                      [iban |-> row.IBAN,
                                       mandate_reference |-> row.MachtigingsID,
                                       mandate_signature_date |-> row.Datum,
                                       given_name |-> row.Voornaam,
                                       family_name |-> row.Naam]),
                                   Closed, r1, cid, NoDate)
                         /\ UNCHANGED idx

\* process_customer after api.import_mandate
MandateReturn ==
    /\ pc = "ret"
    /\ step = "mandate"
    /\ LET row == rows[idx]
       IN  IF CaughtException(ret)
           THEN Finish([res EXCEPT !.errors = Append(@, ret.msg)], Closed)
           ELSE LET r1 == [res EXCEPT !.mandate = ret.value]
                    sd == IF row.Datum /= NoDate
                          THEN next_same_day_in_year(row.Datum, today)
                          ELSE NoDate
                IN  /\ Invoke(create_subscription(customer_id,
                                  [amount |-> row.Bedrag, currency |-> "EUR",
                                   interval |-> "1 year",
                                   description |-> "Yearly subscription",
                                   start_date |-> sd]),
                              Closed, r1, customer_id, sd)
                    /\ UNCHANGED idx

\* process_customer after api.create_subscription
SubscriptionReturn ==
    /\ pc = "ret"
    /\ step = "subscription"
    /\ LET r1 == IF CaughtException(ret)
                 THEN [res EXCEPT !.errors = Append(@, ret.msg)]
                 ELSE [res EXCEPT !.subscription = ret.value]
           r2 == [r1 EXCEPT !.subscription_startDate =
                      IF start_date /= NoDate THEN isoformat(start_date) ELSE ""]
       IN  Finish(r2, Closed)

\* main after the loop: write_imported_csv
WriteCsv ==
    /\ pc = "read"
    /\ MissingColumns(fieldnames) = {}
    /\ idx = Len(rows)
    /\ written' = [exists |-> TRUE, rows |-> out_rows]
    /\ pc' = "done"
    /\ UNCHANGED <<test, rows, today, run, idx, step, res, customer_id, start_date,
                   out_rows, success_count, fail_count, prev_written, call,
                   attempts, backoff, sleeps, lastWait, hinted, sent, resp, ret,
                   calls,
                   hist, fvars, rvars, cvars>>

\* variant: the outcomes gathered so far are written before the exit
OutputAfterFatalPartial(file, outcomes) == [exists |-> TRUE, rows |-> outcomes]

\* the output file after main's except branch: sys.exit(1) comes before
\* write_imported_csv, the file is not touched
OutputAfterFatal(file, outcomes) == file

\* next() on read_customers raises inside main's try: KeyError at the first
\* next() when the header lacks a required column, or an error of reading the
\* file at any next() (a line that is not UTF-8); main logs it and calls
\* sys.exit(1).
ReaderRaises ==
    /\ pc = "read"
    /\ MissingColumns(fieldnames) /= {} => idx = 0
    /\ pc' = "fatal"
    /\ written' = OutputAfterFatal(written, out_rows)
    /\ UNCHANGED <<test, rows, today, run, idx, step, res, customer_id, start_date,
                   out_rows, success_count, fail_count, prev_written, call,
                   attempts, backoff, sleeps, lastWait, hinted, sent, resp, ret,
                   calls, hist, fvars, rvars, cvars>>

\* The import is run again on the same input, the same or a later day (the
\* replay of a dry run).
Rerun ==
    /\ pc = "done"
    /\ test
    /\ run < MaxRuns
    /\ run' = run + 1
    /\ today' \in {dd \in Days : ~DateLt(dd, today)}
    /\ prev_written' = written
    /\ written' = NoFile
    /\ idx' = 0
    /\ pc' = "read"
    /\ out_rows' = << >>
    /\ success_count' = 0
    /\ fail_count' = 0
    /\ hist' = << >>
    /\ UNCHANGED <<test, rows, step, res, customer_id, start_date, call, attempts,
                   backoff, sleeps, lastWait, hinted, sent, resp, ret, calls,
                   fvars, rvars, cvars>>

Next ==
    \/ NextRow
    \/ PostAttempt
    \/ CustomerReturn
    \/ MandateReturn
    \/ SubscriptionReturn
    \/ WriteCsv
    \/ ReaderRaises
    \/ Rerun

Spec == Init /\ [][Next]_vars

\* Every step of the program is taken in the end: the calls block, none hangs
\* (session.post has a timeout, time.sleep returns).
FairSpec == Spec /\ WF_vars(Next)

\* ------------------------------------------------ list_subscriptions.py
\* The most items one _get_paginated call collects: the server gives a page
\* only as many items as still fit (pages of no items are always possible).
MaxItems == 2

\* how many session.get calls of one _get_paginated call `trail` records
MaxTrail == MaxItems + 1

BASE_URL == "https://api.mollie.com/v2"

\* f"{self.BASE_URL}/customers"
CustomersUrl == BASE_URL \o "/customers"

\* f"{self.BASE_URL}/customers/{customer_id}/subscriptions"
SubscriptionsUrl(cid) == BASE_URL \o "/customers/" \o cid \o "/subscriptions"

\* data["_links"]["next"]["href"] of a page: the server is free to point to
\* any page, one already fetched included; None: the page has no next link
Hrefs == { BASE_URL \o "/customers?from=a", BASE_URL \o "/customers?from=b" }

\* session.get raised a requests.RequestException (no connection, timeout),
\* or response.raise_for_status() raised one (HTTPError) on a 4xx or 5xx
GetFailures == {"ConnectionError", "Timeout", "HTTPError 404", "HTTPError 500"}

\* The items of data["_embedded"]: the k items after the `have` already
\* collected. A customer is a dict with or without "id" (has_id[j]); the name
\* and id of an item tell its place in the collection.
CustomerItem(n, with_id) ==
    [id |-> IF with_id THEN "cst_" \o ToString(n) ELSE None,
     name |-> "Customer " \o ToString(n),
     email |-> "c" \o ToString(n) \o "@example.com"]

SubscriptionItem(owner, n) ==
    [id |-> "sub_" \o ToString(owner) \o "_" \o ToString(n), status |-> "active"]

PageItems(lvl, owner, have, k, has_id) ==
    [j \in 1..k |-> IF lvl = "customers" THEN CustomerItem(have + j, has_id[j])
                    ELSE SubscriptionItem(owner, have + j)]

\* one session.get of a _get_paginated call, as `trail` records it
Got(url, ok, page_items, next) ==
    [url |-> url, ok |-> ok, items |-> page_items, next |-> next]

Record(log, entry) == IF Len(log) < MaxTrail THEN Append(log, entry) ELSE log

\* only the last page is kept
ExtendReplaces(list, value) == value

\* `items.extend(value)`, `all_subscriptions.extend(subscriptions)`
Extend(list, value) == list \o value

\* a failed request is taken for a last page: the items so far are returned
IsRequestExceptionNever(f) == FALSE

\* `except requests.RequestException as e:` in _get_paginated
IsRequestException(f) == f \in GetFailures

\* the RuntimeError is not caught: it leaves get_all_subscriptions
CaughtRuntimeErrorNever(exc) == FALSE

\* `except RuntimeError as e:` in get_subscriptions_for_customer
CaughtRuntimeError(exc) == exc = "RuntimeError"

\* every customer is taken to have an id
HasIdAlways(customer) == TRUE

\* `if not customer_id:` does not hold for customer.get("id")
HasId(customer) == Truthy(customer.id)

\* the id is read from a key the customer does not have
AnnotateWithoutId(subscription, customer) ==
    [id |-> subscription.id, status |-> subscription.status,
     _customerInfo |-> [id |-> None, name |-> customer.name,
                        email |-> customer.email]]

\* subscription["_customerInfo"] = {"id": customer_id, "name": ..., "email": ...}
Annotate(subscription, customer) ==
    [id |-> subscription.id, status |-> subscription.status,
     _customerInfo |-> [id |-> customer.id, name |-> customer.name,
                        email |-> customer.email]]

\* main.py is not run
ImporterOff ==
    /\ test = FALSE
    /\ rows = << >>
    /\ today = [y |-> 2026, m |-> 6, d |-> 10]
    /\ run = 1
    /\ idx = 0
    /\ pc = "off"
    /\ step = "none"
    /\ res = EmptyResult
    /\ customer_id = None
    /\ start_date = NoDate
    /\ out_rows = << >>
    /\ success_count = 0
    /\ fail_count = 0
    /\ written = NoFile
    /\ prev_written = NoFile
    /\ call = NoCall
    /\ attempts = 0
    /\ backoff = 1
    /\ sleeps = 0
    /\ lastWait = 0
    /\ hinted = FALSE
    /\ sent = << >>
    /\ resp = NoResp
    /\ ret = NoRet
    /\ calls = << >>
    /\ hist = << >>

\* list_subscriptions.main before fetcher.get_all_subscriptions()
ListInit ==
    /\ ImporterOff
    /\ fieldnames = REQUIRED_COLUMNS
    /\ ReaderOff
    /\ CallsOff
    /\ fpc = "start"
    /\ level = "none"
    /\ next_url = None
    /\ items = << >>
    /\ customers = << >>
    /\ ci = 0
    /\ all_subscriptions = << >>
    /\ result = NoResult
    /\ trail = << >>
    /\ fetches = << >>

\* what the for loop of get_all_subscriptions did with one customer
Fetch(cid, requested, failed, subs) ==
    [id |-> cid, requested |-> requested, failed |-> failed, subs |-> subs]

\* _get_paginated(url) starts: items = [], next_url = url
StartPaginated(lvl, url) ==
    /\ level' = lvl
    /\ next_url' = url
    /\ items' = << >>
    /\ trail' = << >>
    /\ fpc' = "get"

\* get_all_subscriptions starts and calls get_all_customers
GetAllSubscriptions ==
    /\ fpc = "start"
    /\ StartPaginated("customers", CustomersUrl)
    /\ all_subscriptions' = << >>
    /\ UNCHANGED <<customers, ci, result, fetches, ivars, rvars, cvars>>

\* get_subscriptions_for_customer returns subs to the for loop, which
\* annotates them and extends all_subscriptions
SubscriptionsReturned(failed, subs) ==
    /\ all_subscriptions' =
          Extend(all_subscriptions,
                 [i \in 1..Len(subs) |-> Annotate(subs[i], customers[ci])])
    /\ fetches' = Append(fetches, Fetch(customers[ci].id, TRUE, failed, subs))
    /\ fpc' = "for"
    /\ UNCHANGED <<customers, ci, result>>

\* variant: get_all_customers takes a failed fetch for the customers fetched
\* before the failure
CustomersFetchFailedAbsorbed(fetched) == [raises |-> FALSE, customers |-> fetched]

\* get_all_customers and get_all_subscriptions have no handler: the
\* RuntimeError of _get_paginated leaves both, the items fetched are lost
CustomersFetchFailed(fetched) == [raises |-> TRUE, customers |-> << >>]

\* _get_paginated raises RuntimeError: out of get_all_customers and
\* get_all_subscriptions, or into get_subscriptions_for_customer
PaginatedRaises ==
    IF level = "subscriptions" /\ CaughtRuntimeError("RuntimeError")
    THEN SubscriptionsReturned(TRUE, << >>)
    ELSE IF CustomersFetchFailed(items).raises
    THEN /\ result' = [kind |-> "raise", exc |-> "RuntimeError", value |-> << >>]
         /\ fpc' = "end"
         /\ UNCHANGED <<customers, ci, all_subscriptions, fetches>>
    ELSE /\ customers' = CustomersFetchFailed(items).customers
         /\ ci' = 0
         /\ fpc' = "for"
         /\ UNCHANGED <<all_subscriptions, result, fetches>>

\* _get_paginated returns its items
PaginatedReturns ==
    IF level = "subscriptions"
    THEN SubscriptionsReturned(FALSE, items)
    ELSE /\ customers' = items
         /\ ci' = 0
         /\ fpc' = "for"
         /\ UNCHANGED <<all_subscriptions, result, fetches>>

\* One pass of _get_paginated's while loop: session.get(next_url), then the
\* items of the page are added and next_url becomes its next link, or the
\* request fails and RuntimeError is raised.
GetPage ==
    /\ fpc = "get"
    /\ Truthy(next_url)
    /\ \/ \E f \in GetFailures :
            /\ trail' = Record(trail, Got(next_url, FALSE, << >>, None))
            /\ IF IsRequestException(f)
               THEN PaginatedRaises
               ELSE PaginatedReturns
            /\ UNCHANGED <<level, next_url, items>>
       \/ \E k \in 0..(MaxItems - Len(items)), next \in {None} \cup Hrefs :
          \E has_id \in [1..k -> BOOLEAN] :
            LET value == PageItems(level, ci, Len(items), k, has_id)
            IN  /\ (level = "subscriptions") => (\A j \in 1..k : has_id[j])
                /\ trail' = Record(trail, Got(next_url, TRUE, value, next))
                /\ items' = Extend(items, value)
                /\ next_url' = next
                /\ UNCHANGED <<fpc, level, customers, ci, all_subscriptions,
                               result, fetches>>
    /\ UNCHANGED <<ivars, rvars, cvars>>

\* `while next_url:` ends: the last page had no next link
EndOfPages ==
    /\ fpc = "get"
    /\ ~Truthy(next_url)
    /\ PaginatedReturns
    /\ UNCHANGED <<level, next_url, items, trail, ivars, rvars, cvars>>

\* the for loop of get_all_subscriptions takes the next customer
NextCustomer ==
    /\ fpc = "for"
    /\ ci < Len(customers)
    /\ ci' = ci + 1
    /\ LET customer == customers[ci + 1]
       IN  IF HasId(customer)
           THEN /\ StartPaginated("subscriptions", SubscriptionsUrl(customer.id))
                /\ UNCHANGED fetches
           ELSE /\ fetches' = Append(fetches, Fetch(customer.id, FALSE, FALSE, << >>))
                /\ UNCHANGED <<fpc, level, next_url, items, trail>>
    /\ UNCHANGED <<customers, all_subscriptions, result, ivars, rvars, cvars>>

\* the for loop is over: get_all_subscriptions returns all_subscriptions
ReturnAllSubscriptions ==
    /\ fpc = "for"
    /\ ci = Len(customers)
    /\ result' = [kind |-> "return", exc |-> None, value |-> all_subscriptions]
    /\ fpc' = "end"
    /\ UNCHANGED <<level, next_url, items, customers, ci, all_subscriptions,
                   trail, fetches, ivars, rvars, cvars>>

ListNext ==
    \/ GetAllSubscriptions
    \/ GetPage
    \/ EndOfPages
    \/ NextCustomer
    \/ ReturnAllSubscriptions

ListSpec == ListInit /\ [][ListNext]_vars

\* Every step of the fetcher is taken in the end: session.get has a timeout,
\* so each request ends with a page or an exception.
ListFairSpec == ListSpec /\ WF_vars(ListNext)

\* --------------------------------------------------------- csv_reader.py
\* the longest file of data rows
MaxLines == 2

\* A text cell of the file: its text and whether blanks surround it.
Cell(text, padded) == [text |-> text, padded |-> padded]

\* v.strip()
Strip(c) == c.text

\* The text of a date cell, "a<sep>b<sep>c": a written with wa digits, c with
\* wc digits, b with one or two; the empty cell has no digits at all.
DateText(a, wa, b, c, wc, sep) ==
    [a |-> a, wa |-> wa, b |-> b, c |-> c, wc |-> wc, sep |-> sep]

EmptyText == DateText(0, 0, 0, 0, 0, "")

Parsed(value) == [ok |-> TRUE, value |-> value]

\* datetime.strptime(date_str, "%Y-%m-%d").date(): %Y takes four digits
StrptimeYmd(t) ==
    IF t.sep = "-" /\ t.wa = 4 /\ t.wc \in 1..2 /\ t.a >= 1 /\ ValidDate(t.a, t.b, t.c)
    THEN Parsed([y |-> t.a, m |-> t.b, d |-> t.c])
    ELSE [ok |-> FALSE, value |-> NoDate]

\* datetime.strptime(date_str, "%d-%m-%Y").date()
StrptimeDmY(t) ==
    IF t.sep = "-" /\ t.wa \in 1..2 /\ t.wc = 4 /\ t.c >= 1 /\ ValidDate(t.c, t.b, t.a)
    THEN Parsed([y |-> t.c, m |-> t.b, d |-> t.a])
    ELSE [ok |-> FALSE, value |-> NoDate]

\* datetime.strptime(date_str, "%d-%m-%y").date(): %y takes two digits, 00-68
\* are 2000-2068 and 69-99 are 1969-1999
StrptimeDmy(t) ==
    LET year == IF t.c < 69 THEN 2000 + t.c ELSE 1900 + t.c
    IN  IF t.sep = "-" /\ t.wa \in 1..2 /\ t.wc = 2 /\ ValidDate(year, t.b, t.a)
        THEN Parsed([y |-> year, m |-> t.b, d |-> t.a])
        ELSE [ok |-> FALSE, value |-> NoDate]

\* csv_reader._parse_date: the first format that matches; ok = FALSE is the
\* ValueError
parse_date(date_str) ==
    IF StrptimeYmd(date_str).ok THEN StrptimeYmd(date_str)
    ELSE IF StrptimeDmY(date_str).ok THEN StrptimeDmY(date_str)
    ELSE StrptimeDmy(date_str)

\* The text of an amount cell, a sequence of pieces: a run of w digits with
\* value n, or one of the characters "," "." " ", or a letter "x".
Digits(n, w) == [t |-> "digits", n |-> n, w |-> w]
Char(c) == [t |-> c, n |-> 0, w |-> 0]

NotBlank(piece) == piece.t /= " "

\* s.replace(" ", "")
RemoveBlanks(text) == SelectSeq(text, NotBlank)

\* s.replace(",", ".")
CommaToDot(text) ==
    [i \in 1..Len(text) |-> IF text[i].t = "," THEN Char(".") ELSE text[i]]

\* digit runs that have become adjacent are one run
RECURSIVE JoinDigits(_)
JoinDigits(text) ==
    IF Len(text) < 2 THEN text
    ELSE IF text[1].t = "digits" /\ text[2].t = "digits"
         THEN JoinDigits(<<Digits(text[1].n * (10 ^ text[2].w) + text[2].n,
                                  text[1].w + text[2].w)>> \o SubSeq(text, 3, Len(text)))
         ELSE <<text[1]>> \o JoinDigits(Tail(text))

\* the value in cents of the w digits n after the decimal point (w <= 2)
FractionCents(n, w) == IF w = 1 THEN n * 10 ELSE n

\* float(s), in cents: digits, digits "." digits, digits ".", "." digits;
\* ok = FALSE is the ValueError
Float(text) ==
    LET p == JoinDigits(text)
    IN  IF Len(p) = 1 /\ p[1].t = "digits" THEN Parsed(p[1].n * 100)
        ELSE IF Len(p) = 2 /\ p[1].t = "digits" /\ p[2].t = "."
             THEN Parsed(p[1].n * 100)
        ELSE IF Len(p) = 2 /\ p[1].t = "." /\ p[2].t = "digits"
             THEN Parsed(FractionCents(p[2].n, p[2].w))
        ELSE IF Len(p) = 3 /\ p[1].t = "digits" /\ p[2].t = "." /\ p[3].t = "digits"
             THEN Parsed(p[1].n * 100 + FractionCents(p[3].n, p[3].w))
        ELSE [ok |-> FALSE, value |-> 0]

\* the IBANs of the model whose checksum stdnum.iban.validate accepts
ValidIbans == {"NL91ABNA0417164300"}

\* csv_reader.validate_iban
validate_iban(iban_value) == iban_value \in ValidIbans

\* a data row of the file, before anything is done to it
RawRow(email, iban, datum, bedrag) ==
    [Email |-> email, Voornaam |-> Cell("A", FALSE), Naam |-> Cell("B", FALSE),
     IBAN |-> iban, MachtigingsID |-> Cell("ref1", FALSE),
     Datum |-> datum, Bedrag |-> bedrag]

GoodEmail == Cell("a@example.com", FALSE)
GoodIban == Cell("NL91ABNA0417164300", FALSE)
GoodDate == DateText(2024, 4, 6, 15, 2, "-")           \* 2024-06-15
GoodAmount == <<Digits(12, 2), Char(","), Digits(50, 2)>>   \* 12,50

\* rows that pass, and for every gate rows that do not
RawRows ==
    { RawRow(GoodEmail, GoodIban, GoodDate, GoodAmount),
      RawRow(Cell("b@example.com", TRUE), Cell("NL91ABNA0417164300", TRUE),
             DateText(15, 2, 6, 2024, 4, "-"),             \* 15-06-2024
             <<Char(" "), Digits(25, 2), Char(" ")>>),     \* " 25 "
      RawRow(GoodEmail, GoodIban,
             DateText(1, 1, 6, 24, 2, "-"),                \* 1-6-24
             <<Digits(1, 1), Char(" "), Digits(250, 3), Char("."), Digits(5, 1)>>),
      RawRow(Cell("", TRUE), GoodIban, GoodDate, GoodAmount),
      RawRow(GoodEmail, Cell("", FALSE), GoodDate, GoodAmount),
      RawRow(GoodEmail, Cell("NL00ABNA0417164300", FALSE), GoodDate, GoodAmount),
      RawRow(GoodEmail, GoodIban, DateText(31, 2, 2, 2024, 4, "-"), GoodAmount),
      RawRow(GoodEmail, GoodIban, DateText(2024, 4, 6, 15, 2, "/"), GoodAmount),
      RawRow(GoodEmail, GoodIban, EmptyText, GoodAmount),
      RawRow(GoodEmail, GoodIban, GoodDate, <<Char("x")>>),
      RawRow(GoodEmail, GoodIban, GoodDate, << >>),
      RawRow(GoodEmail, GoodIban, GoodDate,
             <<Digits(1, 1), Char(","), Digits(234, 3), Char("."), Digits(56, 2)>>) }

Files == UNION {[1..n -> RawRows] : n \in 0..MaxLines}

\* the header lines read_customers is run on: also one with an extra column
ReadHeaders == Headers \cup {REQUIRED_COLUMNS \cup {"currency"}}

Yield(row) == [yield |-> TRUE, row |-> row, warning |-> None]
Skip(warning) == [yield |-> FALSE, row |-> Row("", "", NoDate, 0), warning |-> warning]

\* The body of the for loop of read_customers for one row of the file.
ReadRow(raw, flag) ==
    LET email == Strip(raw.Email)
        iban == Strip(raw.IBAN)
        datum == IF raw.Datum /= EmptyText THEN parse_date(raw.Datum)
                 ELSE Parsed(NoDate)
        bedrag == Float(CommaToDot(RemoveBlanks(raw.Bedrag)))
    IN  IF email = "" \/ iban = "" THEN Skip("missing Email or IBAN")
        ELSE IF flag /\ ~validate_iban(iban) THEN Skip("invalid IBAN")
        ELSE IF ~datum.ok THEN Skip("invalid Datum Ondertekening")
        ELSE IF ~bedrag.ok THEN Skip("invalid Bedrag")
        ELSE Yield([Email |-> email, Voornaam |-> Strip(raw.Voornaam),
                    Naam |-> Strip(raw.Naam), IBAN |-> iban,
                    MachtigingsID |-> Strip(raw.MachtigingsID),
                    Datum |-> datum.value, Bedrag |-> bedrag.value])

\* read_customers is called on a file and iterated to its end
ReadInit ==
    /\ ImporterOff
    /\ FetcherOff
    /\ CallsOff
    /\ fieldnames \in ReadHeaders
    /\ validate_iban_flag \in BOOLEAN
    /\ lines \in Files
    /\ line_no = 0
    /\ yielded = << >>
    /\ skipped = << >>
    /\ rpc = "open"

\* the first next(): the file is opened and the header is looked at
OpenCsv ==
    /\ rpc = "open"
    /\ rpc' = IF MissingColumns(fieldnames) /= {} THEN "raised" ELSE "rows"
    /\ UNCHANGED <<fieldnames, validate_iban_flag, lines, line_no, yielded,
                   skipped, ivars, fvars, cvars>>

\* one pass of the for loop: the row is yielded, or skipped with a warning
ReadLine ==
    /\ rpc = "rows"
    /\ line_no < Len(lines)
    /\ line_no' = line_no + 1
    /\ LET out == ReadRow(lines[line_no + 1], validate_iban_flag)
       IN  IF out.yield
           THEN yielded' = Append(yielded, out.row) /\ UNCHANGED skipped
           ELSE /\ skipped' = Append(skipped, [i |-> line_no + 1,
                                               warning |-> out.warning])
                /\ UNCHANGED yielded
    /\ UNCHANGED <<fieldnames, validate_iban_flag, lines, rpc, ivars, fvars, cvars>>

\* the file has no more rows: the generator is exhausted
EndOfFile ==
    /\ rpc = "rows"
    /\ line_no = Len(lines)
    /\ rpc' = "end"
    /\ UNCHANGED <<fieldnames, validate_iban_flag, lines, line_no, yielded,
                   skipped, ivars, fvars, cvars>>

ReadNext ==
    \/ OpenCsv
    \/ ReadLine
    \/ EndOfFile

ReadSpec == ReadInit /\ [][ReadNext]_vars

\* ------------------------------------------------------- direct calls
\* next_same_day_in_year and MollieAPI.import_mandate called on their own, as
\* the unit tests call them.
Date(y, m, d) == [y |-> y, m |-> m, d |-> d]

\* signature dates: the dates of the tests, and days at the ends of months
OrigDates ==
    { Date(2020, 6, 15), Date(2021, 1, 6), Date(2020, 2, 29), Date(2021, 2, 28),
      Date(2022, 3, 1), Date(2019, 12, 31), Date(2023, 1, 1) }

\* reference dates in a leap year, before one and after one
FromDates ==
    { Date(2026, 1, 10), Date(2026, 1, 19), Date(2021, 1, 1),
      Date(2023, 3, 1), Date(2023, 3, 2), Date(2023, 12, 31),
      Date(2024, 2, 28), Date(2024, 2, 29), Date(2024, 3, 1), Date(2024, 1, 1),
      Date(2024, 12, 31) }

\* the mandate_reference of a mandate dict: absent, empty or given
References == {None, "", "ref1"}

\* the mandate dict of the n-th call: the two calls import different mandates
MandateDict(n, ref) ==
    [iban |-> IF n = 1 THEN "NL91ABNA0417164300" ELSE "DE89370400440532013000",
     mandate_reference |-> ref,
     mandate_signature_date |-> Date(2024, 6, 15 + n),
     given_name |-> IF n = 1 THEN "A" ELSE "C",
     family_name |-> IF n = 1 THEN "B" ELSE "D"]

CallInit ==
    /\ ImporterOff
    /\ FetcherOff
    /\ fieldnames = REQUIRED_COLUMNS
    /\ ReaderOff
    /\ sig_date \in OrigDates
    /\ ref_date \in FromDates
    /\ next_day = NoDate
    /\ owner_ids \in {<<"cst_1", "cst_1">>, <<"cst_1", "cst_2">>}
    /\ mandates \in {<<MandateDict(1, r1), MandateDict(2, r2)>> :
                        r1 \in References, r2 \in References}
    /\ mandate_calls = << >>

\* next_same_day_in_year(orig_date, from_date) is called
CallNextSameDay ==
    /\ next_day = NoDate
    /\ next_day' = next_same_day_in_year(sig_date, ref_date)
    /\ UNCHANGED <<sig_date, ref_date, owner_ids, mandates, mandate_calls,
                   ivars, fvars, rvars>>

\* api.import_mandate(customer_id, mandate) is called: the request it builds
CallImportMandate ==
    /\ Len(mandate_calls) < Len(mandates)
    /\ LET n == Len(mandate_calls) + 1
       IN  mandate_calls' = Append(mandate_calls,
                                   import_mandate(owner_ids[n], mandates[n]))
    /\ UNCHANGED <<sig_date, ref_date, next_day, owner_ids, mandates,
                   ivars, fvars, rvars>>

CallNext ==
    \/ CallNextSameDay
    \/ CallImportMandate

CallSpec == CallInit /\ [][CallNext]_vars

\* ------------------------------------------------------------ properties
\* a session.post outcome that is a retryable failure: network failure, 5xx, 429
RetryableFailure(r) == r.net \/ r.status = 429 \/ (r.status >= 500 /\ r.status <= 599)

\* a session.post outcome that is a response with a 2xx status
Is2xx(r) == ~r.net /\ r.status >= 200 /\ r.status <= 299

\* a live _post call has ended
LiveCallEnded == pc = "ret" /\ ~test /\ call.op /= "none" /\ ~call.raises

\* C1: a live post call never makes more than 5 requests and always ends,
\* whatever the server answers: attempts counts the session.post calls of the
\* call and never exceeds 5; inside the retry loop fewer than 5 have been made,
\* a next pass is always possible (the call is never stuck), and every pass
\* is one more request that stays in the loop or ends the call. So the call
\* ends after at most 5 passes.
PostAtMostFiveRequestsAndEnds ==
    /\ [](attempts <= max_attempts)
    /\ []((pc = "post") => (~test /\ attempts < max_attempts /\ ENABLED PostAttempt))
    /\ [][(pc = "post") => (attempts' = attempts + 1 /\ pc' \in {"post", "ret"})]_vars

\* C1 witness: a live call that used all five requests and ended
PostUsedAllFiveRequests ==
    LiveCallEnded /\ attempts = max_attempts /\ sleeps = max_attempts

\* C2: when the last (hence every) attempt of a live post call was a retryable
\* failure, the call made exactly 5 requests and raised the RemoteError
\* (RuntimeError).
RetryableFailuresExhaustFiveAttempts ==
    (LiveCallEnded /\ RetryableFailure(resp))
        => (attempts = 5 /\ ret.kind = "raise" /\ ret.exc = "RuntimeError")

\* a response whose status is neither 2xx, 5xx nor 429
PermanentStatus(r) == ~r.net /\ r.status /= 0 /\ ~Is2xx(r) /\ ~RetryableFailure(r)

\* C3: a response whose status is neither 2xx, 5xx nor 429 ends the live post
\* call at that attempt with the RemoteError: the call has raised RuntimeError,
\* it slept once after each earlier attempt and not after this one, and the
\* next step sends no further request of this call.
PermanentStatusEndsCallAtOnce ==
    /\ [](PermanentStatus(resp) =>
            (pc = "ret" /\ ret.kind = "raise" /\ ret.exc = "RuntimeError"
             /\ sleeps = attempts - 1))
    /\ [][PermanentStatus(resp) => (pc' /= "post" \/ attempts' = 0)]_vars

\* C3 witness: a 404 on the third attempt, after two retried failures
PermanentStatusOnThirdAttempt ==
    LiveCallEnded /\ resp.status = 404 /\ attempts = 3 /\ sleeps = 2

\* C4: every response with a status from 200 to 299 (and a body that is a
\* JSON object, or no JSON) ends the live post call successfully: the call has
\* returned the body with the idempotency key attached.
Any2xxReturnsBodyWithKey ==
    (Is2xx(resp) /\ resp.body.kind /= "array") =>
        /\ pc = "ret" /\ ret.kind = "return"
        /\ ret.value.id = resp.body.id
        /\ ret.value.idempotency = call.key

\* the API calls of every row of this run, finished or in progress
AllCalls == {calls} \cup {hist[i] : i \in 1..Len(hist)}

IsPosted(e) == e.posted

\* the operations of the calls of cs that reached _post, in order
PostedOps(cs) ==
    LET posted == SelectSeq(cs, IsPosted)
    IN  [i \in 1..Len(posted) |-> posted[i].op]

IsPrefix(a, b) == Len(a) <= Len(b) /\ \A i \in 1..Len(a) : a[i] = b[i]

\* an earlier call of cs, of operation op, returned
ReturnedBefore(cs, i, op) ==
    \E j \in 1..(i - 1) : cs[j].op = op /\ cs[j].outcome = "return"

\* C5: per row the writes are issued in the order customer, mandate,
\* subscription, each at most once; the mandate write only after the customer
\* write returned an identifier (an id or, as the code reads it, a resource),
\* the subscription write only after the mandate write returned; and no call
\* follows a call that raised.
WritesInOrderEachAtMostOnce ==
    \A cs \in AllCalls :
        /\ IsPrefix(PostedOps(cs), <<"customer", "mandate", "subscription">>)
        /\ \A i \in 1..Len(cs) :
            /\ (cs[i].posted /\ cs[i].op = "mandate") =>
                  \E j \in 1..(i - 1) :
                      /\ cs[j].op = "customer" /\ cs[j].outcome = "return"
                      /\ (Truthy(cs[j].id) \/ Truthy(cs[j].resource))
            /\ (cs[i].posted /\ cs[i].op = "subscription") =>
                  ReturnedBefore(cs, i, "mandate")
            /\ (i < Len(cs)) => cs[i].outcome = "return"

\* C5 witness: a live run in which one row had all three writes and another
\* row stopped at a mandate write that raised
ThreeWritesAndAFailedMandate ==
    /\ pc = "done" /\ ~test
    /\ \E i \in 1..Len(hist) : Len(PostedOps(hist[i])) = 3
    /\ \E i \in 1..Len(hist) :
          /\ Len(hist[i]) = 2
          /\ hist[i][2].posted /\ hist[i][2].outcome = "raise"

\* C6: when the customer write of a row raised, no other call was made for
\* the row and its outcome is failed with empty customer, mandate and
\* subscription ids.
CustomerFailureStopsRecord ==
    \A i \in 1..Len(hist) :
        (i <= Len(out_rows) /\ hist[i][1].op = "customer" /\ hist[i][1].outcome = "raise")
            => /\ Len(hist[i]) = 1
               /\ out_rows[i].status = "failed"
               /\ out_rows[i].customer_id = ""
               /\ out_rows[i].mandate_id = ""
               /\ out_rows[i].subscription_id = ""

\* C6 witness: a row whose customer write was posted and raised, recorded
CustomerWriteFailed ==
    \E i \in 1..Len(hist) :
        /\ i <= Len(out_rows)
        /\ hist[i][1].posted /\ hist[i][1].outcome = "raise"
        /\ out_rows[i].error /= ""

\* C7: when the customer write returned a response with no identifier (no id
\* and no resource), no mandate or subscription call was made and the outcome
\* is ok with an empty error and empty mandate and subscription ids.
CustomerWithoutIdSkipsRestAsOk ==
    \A i \in 1..Len(hist) :
        (/\ i <= Len(out_rows)
         /\ hist[i][1].op = "customer" /\ hist[i][1].outcome = "return"
         /\ ~Truthy(hist[i][1].id) /\ ~Truthy(hist[i][1].resource))
            => /\ Len(hist[i]) = 1
               /\ out_rows[i].status = "ok"
               /\ out_rows[i].error = ""
               /\ out_rows[i].mandate_id = ""
               /\ out_rows[i].subscription_id = ""

\* C7 witness: a customer write that returned without id and resource
CustomerReturnedWithoutId ==
    \E i \in 1..Len(hist) :
        /\ i <= Len(out_rows)
        /\ hist[i][1].posted /\ hist[i][1].outcome = "return"
        /\ ~Truthy(hist[i][1].id) /\ ~Truthy(hist[i][1].resource)

\* C8: the outcome list holds one outcome per row taken so far, in input
\* order, whatever happened to each row; when the run is over it holds one
\* per row of the input, and that list is what was written.
OneOutcomePerRecordInOrder ==
    /\ Len(out_rows) = Len(hist)
    /\ (pc \in {"read", "done"}) => Len(out_rows) = idx
    /\ (pc \in {"post", "ret"}) => Len(out_rows) = idx - 1
    /\ \A i \in 1..Len(out_rows) : out_rows[i].email = rows[i].Email
    /\ (pc = "done") => (Len(out_rows) = Len(rows) /\ written.rows = out_rows)

\* C8 witness: a finished run of two rows whose first row failed
FirstOfTwoRecordsFailed ==
    /\ pc = "done" /\ Len(rows) = 2
    /\ out_rows[1].status = "failed"
    /\ Len(hist[2]) >= 1

\* C9: a second run on the same input gives every row the same customer,
\* mandate and subscription idempotency keys as the run before it.
ReplayGivesIdenticalKeys ==
    (pc = "done" /\ prev_written.exists) =>
        \A i \in 1..Len(written.rows) :
            (i <= Len(prev_written.rows)) =>
                /\ written.rows[i].customer_idempotency
                     = prev_written.rows[i].customer_idempotency
                /\ written.rows[i].mandate_idempotency
                     = prev_written.rows[i].mandate_idempotency
                /\ written.rows[i].subscription_idempotency
                     = prev_written.rows[i].subscription_idempotency

\* C10: in dry-run mode no call enters the retry loop, so no request is sent
\* and no sleep is made, for any row and any of the three operations; a call
\* that reaches _post returns a response with the request payload embedded
\* and never raises.
DryRunDoesNoNetworkIO ==
    test =>
        /\ pc /= "post" /\ attempts = 0 /\ sleeps = 0 /\ resp = NoResp
        /\ (pc = "ret" /\ ~call.raises) =>
              (ret.kind = "return" /\ ret.value.payload = call.payload)
        /\ \A cs \in AllCalls : \A i \in 1..Len(cs) :
              cs[i].posted => cs[i].outcome /= "raise"

\* C10 witness: a finished dry run of two rows, the first with all three writes
DryRunOfTwoRecordsDone ==
    /\ test /\ pc = "done" /\ Len(hist) = 2
    /\ Len(PostedOps(hist[1])) = 3

\* the resource prefix of the path each operation posts to
ResourcePrefix(op) ==
    IF op = "customer" THEN "cst_"
    ELSE IF op = "mandate" THEN "mdt_"
    ELSE "sub_"

\* C11: in dry-run mode the id _post returns is the resource prefix of the
\* path (cst_, mdt_, sub_) followed by the first 12 characters of the
\* idempotency key, so it is a function of the path kind and the key: every
\* call of the three operations that reached _post got a non-empty id, and
\* two rows with equal keys got equal ids.
DryRunIdIsPrefixAndShortKey ==
    test =>
        /\ (pc = "ret" /\ ~call.raises) =>
              /\ ret.kind = "return"
              /\ ret.value.id = ResourcePrefix(call.op) \o Short(call.key)
              /\ ret.value.idempotency = call.key
        /\ \A cs \in AllCalls : \A i \in 1..Len(cs) :
              (cs[i].posted /\ cs[i].outcome /= "pending") =>
                  (cs[i].outcome = "return" /\ Truthy(cs[i].id))
        /\ \A i, j \in 1..Len(out_rows) :
              /\ (out_rows[i].customer_idempotency = out_rows[j].customer_idempotency)
                    => out_rows[i].customer_id = out_rows[j].customer_id
              /\ (out_rows[i].mandate_idempotency = out_rows[j].mandate_idempotency)
                    => out_rows[i].mandate_id = out_rows[j].mandate_id
              /\ (out_rows[i].subscription_idempotency
                     = out_rows[j].subscription_idempotency)
                    => out_rows[i].subscription_id = out_rows[j].subscription_id

\* C11 witness: a dry run in which two rows with the same email got the same
\* customer id and a subscription write returned a sub_ id
DryRunTwoRowsSameCustomerId ==
    /\ test /\ pc = "ret" /\ step = "subscription" /\ ret.kind = "return"
    /\ ret.value.id = "sub_" \o Short(call.key)
    /\ Len(out_rows) = 1 /\ idx = 2
    /\ rows[1].Email = rows[2].Email
    /\ out_rows[1].customer_id = "cst_" \o Short(deterministic_key(<<"customer", rows[1].Email>>))

\* C12: in dry-run mode every row the reader yields gets one output row with
\* status ok and a non-empty customer_idempotency.
DryRunEveryRecordOk ==
    test =>
        /\ (pc \in {"read", "done"}) => Len(out_rows) = idx
        /\ \A i \in 1..Len(out_rows) :
              /\ out_rows[i].email = rows[i].Email
              /\ out_rows[i].status = "ok"
              /\ out_rows[i].customer_idempotency /= ""

\* a live _post call is in its retry loop or has just ended
InLiveCall == ~test /\ pc \in {"post", "ret"} /\ ~call.raises

\* C13: the backoff of a live post call is 1 at its start and doubles with
\* every failed attempt that is retried, network failure or 5xx/429 alike
\* (backoff = 2^sleeps), and the wait after a network failure at attempt k is
\* the backoff at that point, 2^(k-1): 1, 2, 4, 8 before attempts 2 to 5.
NetworkFailureWaitsDouble ==
    /\ [](InLiveCall => backoff = 2 ^ sleeps)
    /\ []((pc = "post") => sleeps = attempts)
    /\ [][(pc = "post" /\ resp'.net)
            => (sleeps' = sleeps + 1 /\ lastWait' = 2 ^ attempts)]_vars

\* C13 witness: the fourth attempt failed at network level and the call
\* waits 8 before the fifth
WaitOfEightBeforeFifthAttempt ==
    /\ ~test /\ pc = "post" /\ attempts = 4
    /\ resp.net /\ lastWait = 8 /\ backoff = 16

\* C14: when a 5xx/429 response carries a retry-after hint and the call
\* waits, the wait is the hint and not the backoff, and the backoff doubles
\* all the same; so after a hinted attempt the wait of an attempt k without
\* a hint is 2^(k-1), what it is in a call that never got a hint.
HintedWaitIsHintAndBackoffStillDoubles ==
    /\ [][(pc = "post" /\ UsesRetryAfter(resp') /\ sleeps' = sleeps + 1)
            => (lastWait' = FloatOf(resp'.retry_after)
                /\ backoff' = 2 * backoff)]_vars
    /\ [][(pc = "post" /\ hinted /\ ~UsesRetryAfter(resp') /\ sleeps' = sleeps + 1)
            => lastWait' = 2 ^ attempts]_vars
    /\ [](InLiveCall => backoff = 2 ^ sleeps)

\* C14 witness: after a wait taken from a hint, the third attempt got a 500
\* without a hint and the call waits 4
UnhintedWaitAfterHintedAttempt ==
    /\ ~test /\ pc = "post" /\ hinted /\ attempts = 3
    /\ resp.status = 500 /\ resp.retry_after = None
    /\ lastWait = 4 /\ backoff = 8

\* every session.get of the running (or last) _get_paginated call is in trail
TrailComplete == Len(trail) < MaxTrail

RECURSIVE PagesConcat(_)
\* the items of the pages of a log, page after page
PagesConcat(log) ==
    IF Len(log) = 0 THEN << >>
    ELSE PagesConcat(SubSeq(log, 1, Len(log) - 1)) \o log[Len(log)].items

\* the last _get_paginated call was a subscriptions fetch that has ended
\* and no customer has been taken since
SubscriptionsFetchEnded ==
    /\ level = "subscriptions" /\ fpc \in {"for", "end"}
    /\ Len(fetches) = ci /\ ci > 0 /\ fetches[ci].requested

\* the _get_paginated call that trail records is the call for the customer
\* the for loop is at (or the customers fetch)
CallOfCurrentCustomer ==
    level = "customers" \/ fpc = "get" \/ SubscriptionsFetchEnded

\* the url that call was given
StartUrl ==
    IF level = "customers" THEN CustomersUrl
    ELSE SubscriptionsUrl(customers[ci].id)

\* C15: fetchAll (_get_paginated) requests the url it was given, then the
\* next link of each page it got, one request per page; it goes on as long
\* as the page has a next link and returns after the first page without one;
\* the items it holds, and returns, are the items of the pages in the order
\* they were fetched.
FetchAllConcatenatesPagesInOrder ==
    (TrailComplete /\ level /= "none") =>
        /\ (Len(trail) > 0 /\ CallOfCurrentCustomer) => trail[1].url = StartUrl
        /\ \A i \in 1..(Len(trail) - 1) :
              /\ trail[i].ok /\ Truthy(trail[i].next)
              /\ trail[i + 1].url = trail[i].next
        /\ (fpc = "get") =>
              /\ items = PagesConcat(trail)
              /\ next_url = IF Len(trail) = 0 THEN StartUrl
                            ELSE trail[Len(trail)].next
        /\ (level = "customers" /\ fpc = "for") =>
              /\ customers = PagesConcat(trail)
              /\ trail[Len(trail)].ok /\ ~Truthy(trail[Len(trail)].next)
        /\ (SubscriptionsFetchEnded /\ ~fetches[ci].failed) =>
              /\ fetches[ci].subs = PagesConcat(trail)
              /\ trail[Len(trail)].ok /\ ~Truthy(trail[Len(trail)].next)

\* C15 witness: the customers were fetched in two pages of one customer
\* each, the first with a next link, the second without
TwoPagesFetchedInOrder ==
    /\ level = "customers" /\ fpc = "for" /\ Len(trail) = 2
    /\ Len(trail[1].items) = 1 /\ Len(trail[2].items) = 1
    /\ trail[2].url = trail[1].next
    /\ customers = trail[1].items \o trail[2].items

\* C16: every call of fetchAll ends, whatever the server answers: once
\* _get_paginated is in its loop it leaves it, by returning or by raising.
FetchAllEventuallyEnds == (fpc = "get") ~> (fpc /= "get")

\* the subscriptions of the result that were fetched under customer id cid
OfCustomer(subs, cid) ==
    {k \in 1..Len(subs) : subs[k]._customerInfo.id = cid}

\* C17: when a page request of fetchAll fails (no connection, timeout, 4xx
\* or 5xx), no further page of the call is requested and the call raises:
\* a customers fetch ends get_all_subscriptions with RuntimeError and no
\* items; a subscriptions fetch gives its customer no items at all, whatever
\* the pages before the failure held.
PageFailureRaisesAndDiscardsItems ==
    (TrailComplete /\ Len(trail) > 0 /\ ~trail[Len(trail)].ok) =>
        /\ fpc /= "get"
        /\ (level = "customers") =>
              /\ fpc = "end" /\ result.kind = "raise"
              /\ result.exc = "RuntimeError" /\ result.value = << >>
              /\ customers = << >> /\ fetches = << >>
        /\ (level = "subscriptions") =>
              \E i \in 1..Len(fetches) :
                  /\ SubscriptionsUrl(fetches[i].id) = trail[1].url
                  /\ fetches[i].requested /\ fetches[i].failed
                  /\ fetches[i].subs = << >>
                  /\ OfCustomer(all_subscriptions, fetches[i].id) = {}

\* C17 witness: a subscriptions fetch failed on its second page, after a
\* first page with an item
SecondPageFailedAfterItems ==
    /\ SubscriptionsFetchEnded /\ Len(trail) = 2
    /\ trail[1].ok /\ Len(trail[1].items) = 1
    /\ ~trail[2].ok /\ fetches[ci].failed

RECURSIVE FetchedConcat(_)
\* what the for loop makes of the subscriptions fetched per customer: each
\* customer's subscriptions with its _customerInfo, customer after customer
FetchedConcat(fs) ==
    IF Len(fs) = 0 THEN << >>
    ELSE LET n == Len(fs)
         IN  FetchedConcat(SubSeq(fs, 1, n - 1))
             \o [j \in 1..Len(fs[n].subs) |->
                    [id |-> fs[n].subs[j].id, status |-> fs[n].subs[j].status,
                     _customerInfo |-> [id |-> customers[n].id,
                                        name |-> customers[n].name,
                                        email |-> customers[n].email]]]

\* C18: a failed subscriptions fetch counts as an empty list and the loop
\* goes on: get_all_subscriptions raises only if the customers fetch failed;
\* the result holds, customer after customer, the subscriptions of every
\* customer whose fetch did not fail; and when it returns every customer
\* with an id has been asked for, those after a failed one too.
CustomerFailureIsAbsorbed ==
    /\ (result.kind = "raise") => (level = "customers" /\ fetches = << >>)
    /\ \A i \in 1..Len(fetches) : fetches[i].failed => fetches[i].subs = << >>
    /\ (level /= "none") => all_subscriptions = FetchedConcat(fetches)
    /\ (result.kind = "return") =>
          /\ result.value = FetchedConcat(fetches)
          /\ Len(fetches) = Len(customers)
          /\ \A i \in 1..Len(customers) :
                Truthy(customers[i].id) => fetches[i].requested

\* C18 witness: the fetch of the first customer failed, the second
\* customer's subscription is in the result
FirstCustomerFailedSecondListed ==
    /\ fpc = "end" /\ result.kind = "return" /\ Len(fetches) = 2
    /\ fetches[1].failed
    /\ ~fetches[2].failed /\ Len(fetches[2].subs) > 0
    /\ Len(result.value) = Len(fetches[2].subs)

\* the customers under which subscription id sid was fetched
OwnersOf(sid) ==
    {i \in 1..Len(customers) :
        \E n \in 1..MaxItems : sid = SubscriptionItem(i, n).id}

\* C19: every subscription of all_subscriptions carries the _customerInfo of
\* the customer under whose url it was fetched (its id, name and email), and
\* the subscriptions come grouped in customer order: none of a later
\* customer before one of an earlier customer.
SubscriptionsCarryCustomerInfoInCustomerOrder ==
    /\ \A k \in 1..Len(all_subscriptions) :
          \E i \in OwnersOf(all_subscriptions[k].id) :
              /\ Truthy(customers[i].id)
              /\ all_subscriptions[k]._customerInfo =
                    [id |-> customers[i].id, name |-> customers[i].name,
                     email |-> customers[i].email]
    /\ \A k, l \in 1..Len(all_subscriptions) :
          (k < l) =>
              \A i \in OwnersOf(all_subscriptions[k].id),
                 j \in OwnersOf(all_subscriptions[l].id) : i <= j
    /\ (result.kind = "return") => result.value = all_subscriptions

\* C19 witness: the result holds two subscriptions of the first customer and
\* then one of the second
TwoCustomersSubscriptionsGrouped ==
    /\ fpc = "end" /\ result.kind = "return" /\ Len(result.value) = 3
    /\ result.value[1]._customerInfo.id = customers[1].id
    /\ result.value[2]._customerInfo.id = customers[1].id
    /\ result.value[3]._customerInfo.id = customers[2].id

\* C20: a customer without an id is skipped: the step that takes it sends no
\* request and adds nothing to all_subscriptions, no subscriptions url is
\* ever built from a missing id, and the loop goes on: when
\* get_all_subscriptions returns, every customer was taken and the ones with
\* an id were asked for.
CustomerWithoutIdIsSkipped ==
    /\ [][(fpc = "for" /\ ci' = ci + 1 /\ ~Truthy(customers[ci + 1].id))
            => (fpc' = "for"
                /\ UNCHANGED <<trail, next_url, items, all_subscriptions>>)]_vars
    /\ [](\A i \in 1..Len(fetches) :
            /\ fetches[i].requested = Truthy(customers[i].id)
            /\ ~Truthy(customers[i].id) =>
                  (fetches[i].subs = << >> /\ ~fetches[i].failed))
    /\ [](\A i \in 1..Len(trail) : trail[i].url /= SubscriptionsUrl(None))
    /\ []((result.kind = "return") => Len(fetches) = Len(customers))

\* C20 witness: the first customer has no id and was skipped, the second
\* customer's subscription is in the result
SkippedCustomerThenListedCustomer ==
    /\ fpc = "end" /\ result.kind = "return" /\ Len(customers) = 2
    /\ ~Truthy(customers[1].id) /\ ~fetches[1].requested
    /\ fetches[2].requested /\ Len(result.value) > 0

\* a 5xx or 429 response (not a network failure)
RetryStatusResponse(r) == ~r.net /\ (r.status = 429 \/ (r.status >= 500 /\ r.status <= 599))

\* C28: in live mode a 5xx or 429 response on attempts 1 to 4 of a post call
\* is followed by another attempt, whatever its Retry-After header: the call
\* is still in its retry loop after such a response, and a call that such a
\* response ended raised the RemoteError (RuntimeError).
RetryStatusAlwaysRetried ==
    /\ (~test /\ pc \in {"post", "ret"} /\ call.op /= "none" /\ ~call.raises
        /\ attempts \in 1..4 /\ RetryStatusResponse(resp)) => pc = "post"
    /\ (LiveCallEnded /\ RetryStatusResponse(resp))
          => (ret.kind = "raise" /\ ret.exc = "RuntimeError")

\* C30: in every outcome a non-empty subscription_id comes with a non-empty
\* mandate_id, a non-empty mandate_id with a non-empty customer_id, and the
\* result of a row holds at most one error message.
OutcomeIdsAreNested ==
    /\ \A i \in 1..Len(out_rows) :
          /\ out_rows[i].subscription_id /= "" => out_rows[i].mandate_id /= ""
          /\ out_rows[i].mandate_id /= "" => out_rows[i].customer_id /= ""
    /\ Len(res.errors) <= 1

\* the date with d's month and day in year y; March 1 when d is February 29
\* and y is not a leap year
AnniversaryIn(y, d) ==
    IF d.m = 2 /\ d.d = 29 /\ ~IsLeap(y)
    THEN [y |-> y, m |-> 3, d |-> 1]
    ELSE [y |-> y, m |-> d.m, d |-> d.d]

\* the earliest anniversary of d on or after f, in f's year or the next
EarliestAnniversary(d, f) ==
    LET on_or_after == {c \in {AnniversaryIn(f.y, d), AnniversaryIn(f.y + 1, d)} :
                           ~DateLt(c, f)}
    IN  CHOOSE c \in on_or_after : \A c2 \in on_or_after : ~DateLt(c2, c)

\* C27: a subscription write for a row with a signature date carries
\* startDate = the ISO form of the earliest anniversary of the signature date
\* on or after today; the outcome of the row reports the same date, also when
\* the subscription write failed; the outcome of a row that stopped at the
\* customer or the mandate step reports an empty start date.
StartDateSentAndReported ==
    /\ (step = "subscription" /\ pc \in {"post", "ret"} /\ rows[idx].Datum /= NoDate)
          => /\ call.payload.startDate =
                    isoformat(EarliestAnniversary(rows[idx].Datum, today))
             /\ call.key = deterministic_key(<<"subscription", customer_id,
                    Fmt2(rows[idx].Bedrag), "1 year", call.payload.startDate>>)
    /\ \A i \in 1..Len(out_rows) :
          IF hist[i][Len(hist[i])].op = "subscription"
          THEN rows[i].Datum /= NoDate =>
                  out_rows[i].subscription_startDate =
                      isoformat(EarliestAnniversary(rows[i].Datum, today))
          ELSE out_rows[i].subscription_startDate = ""

\* C27 witness: the subscription write of a row signed on June 15 failed on
\* June 20, 2026, and the outcome reports the start date 2027-06-15
FailedSubscriptionReportsStartDate ==
    \E i \in 1..Len(out_rows) :
        /\ Len(hist[i]) = 3 /\ hist[i][3].op = "subscription"
        /\ hist[i][3].posted /\ hist[i][3].outcome = "raise"
        /\ out_rows[i].status = "failed"
        /\ out_rows[i].subscription_startDate = "2027-06-15"

\* C29: all attempts of one post call send the same path, the same payload
\* and the same Idempotency-Key header, those the call was made with: one
\* request per attempt, and each is the first one.
AttemptsSendTheSameRequest ==
    /\ Len(sent) = attempts
    /\ \A n \in 1..Len(sent) :
          /\ sent[n] = sent[1]
          /\ sent[n].url = <<"https://api.mollie.com/v2">> \o call.path
          /\ sent[n].json = call.payload
          /\ sent[n].headers.Idempotency_Key = call.key

\* C29 witness: the fifth attempt of a mandate write has been sent
FiveAttemptsOfMandateSent ==
    /\ ~test /\ step = "mandate" /\ Len(sent) = max_attempts
    /\ sent[5].headers.Idempotency_Key = call.key /\ resp.status = 201

\* C23: when the header lacks a required column, reading fails before any
\* row is yielded, whatever the rows hold: main takes no row, no API request
\* is made or sent, no outcome is gathered, no output file is written, and
\* the only step the run can take is the exit with status 1.
MissingColumnEndsRunBeforeAnyRow ==
    ~(REQUIRED_COLUMNS \subseteq fieldnames) =>
        /\ idx = 0 /\ out_rows = << >>
        /\ calls = << >> /\ hist = << >> /\ call = NoCall
        /\ attempts = 0 /\ sent = << >>
        /\ ~written.exists
        /\ pc \in {"read", "fatal"}
        /\ pc = "read" => (ENABLED ReaderRaises /\ ~ENABLED NextRow /\ ~ENABLED WriteCsv)

\* C23 witness: a live run on a file of two good rows whose header has no
\* Bedrag column has exited
ExitedOnMissingBedragColumn ==
    /\ pc = "fatal" /\ ~test /\ Len(rows) = 2
    /\ fieldnames = REQUIRED_COLUMNS \ {"Bedrag"}

\* C24: the output file is written at most once per run and only after every
\* row has been processed: the only step that writes it is taken at the end
\* of the loop, when there is one outcome per row and no file yet, and it
\* ends the run; a run that ended on a fatal error has written no file,
\* whatever outcomes it had gathered.
OutputWrittenOnceAfterAllRows ==
    /\ [][written' /= written =>
            \/ /\ pc = "read" /\ pc' = "done"
               /\ idx = Len(rows) /\ Len(out_rows) = Len(rows)
               /\ ~written.exists
               /\ written' = [exists |-> TRUE, rows |-> out_rows]
            \/ /\ pc = "done" /\ pc' = "read" /\ run' = run + 1
               /\ ~written'.exists]_vars
    /\ [](written.exists => pc = "done")
    /\ [](pc = "fatal" => ~written.exists)
    /\ [][pc = "fatal" => pc' = "fatal"]_vars

\* C24 witness: the run exited on a fatal error after the outcome of the
\* first of two rows was gathered
FatalErrorAfterFirstOutcome ==
    /\ pc = "fatal" /\ Len(rows) = 2 /\ Len(out_rows) = 1
    /\ out_rows[1].customer_id /= "" /\ ~written.exists

\* a row of the file passes every gate: email and IBAN non-empty after
\* trimming, the IBAN checksum unless validation is disabled, a date that
\* one of the formats parses, an amount that float parses
PassesEveryGate(raw, flag) ==
    /\ Strip(raw.Email) /= "" /\ Strip(raw.IBAN) /= ""
    /\ flag => Strip(raw.IBAN) \in ValidIbans
    /\ parse_date(raw.Datum).ok
    /\ Float(CommaToDot(RemoveBlanks(raw.Bedrag))).ok

\* the record of a row that passes every gate
RecordOf(raw) ==
    [Email |-> Strip(raw.Email), Voornaam |-> Strip(raw.Voornaam),
     Naam |-> Strip(raw.Naam), IBAN |-> Strip(raw.IBAN),
     MachtigingsID |-> Strip(raw.MachtigingsID),
     Datum |-> parse_date(raw.Datum).value,
     Bedrag |-> Float(CommaToDot(RemoveBlanks(raw.Bedrag))).value]

\* the records of the rows among the first k that pass every gate, in order
RECURSIVE RecordsOfPassing(_)
RecordsOfPassing(k) ==
    IF k = 0 THEN << >>
    ELSE IF PassesEveryGate(lines[k], validate_iban_flag)
         THEN Append(RecordsOfPassing(k - 1), RecordOf(lines[k]))
         ELSE RecordsOfPassing(k - 1)

\* C21: the records read_customers has yielded are exactly the rows taken so
\* far that pass every gate, in input order; every other row taken was
\* skipped with one warning; read_customers raises only for the header; and
\* it ends only when every row of the file was taken.
YieldedAreExactlyTheRowsPassingEveryGate ==
    /\ yielded = RecordsOfPassing(line_no)
    /\ Len(yielded) + Len(skipped) = line_no
    /\ rpc = "raised" => (line_no = 0 /\ ~(REQUIRED_COLUMNS \subseteq fieldnames))
    /\ rpc = "end" => line_no = Len(lines)

\* C22: every record read_customers yields has a signature date that is a
\* valid calendar date, never None.
YieldedRecordsHaveASignatureDate ==
    \A k \in 1..Len(yielded) :
        /\ yielded[k].Datum /= NoDate
        /\ ValidDate(yielded[k].Datum.y, yielded[k].Datum.m, yielded[k].Datum.d)

\* r has d's month and day, or is March 1 of a year that is not a leap year
\* when d is February 29
HasMonthAndDayOf(r, d) ==
    \/ r.m = d.m /\ r.d = d.d
    \/ d.m = 2 /\ d.d = 29 /\ ~IsLeap(r.y) /\ r.m = 3 /\ r.d = 1

\* r is a calendar date on or after f, in f's year or the next, with d's
\* month and day
IsSameDayOnOrAfter(r, d, f) ==
    /\ ValidDate(r.y, r.m, r.d)
    /\ ~DateLt(r, f)
    /\ r.y \in {f.y, f.y + 1}
    /\ HasMonthAndDayOf(r, d)

\* every day-of-month slot of f's year and the next
DaySlots(f) == {Date(y, m, d) : y \in {f.y, f.y + 1}, m \in 1..12, d \in 1..31}

\* C25: next_same_day_in_year(d, f) is a date on or after f, in f's year or
\* the following year, with d's month and day (March 1 when d is February 29
\* and the year is not a leap year), and no earlier date has these
\* properties.
NextSameDayIsTheEarliest ==
    next_day /= NoDate =>
        /\ IsSameDayOnOrAfter(next_day, sig_date, ref_date)
        /\ \A c \in DaySlots(ref_date) :
              IsSameDayOnOrAfter(c, sig_date, ref_date) => ~DateLt(c, next_day)

\* C25 witness: February 29 asked for on March 1 of a leap year gives March 1
\* of the next year
LeapDayRolledToNextMarchFirst ==
    /\ sig_date = Date(2020, 2, 29) /\ ref_date = Date(2024, 3, 1)
    /\ next_day = Date(2025, 3, 1)

\* C26: a missing part of a key counts as the empty string: the key of
\* ("mandate", customer, missing) is the key of ("mandate", customer, ""), and
\* two import_mandate calls for the same customer whose mandate_reference is
\* missing or empty send the same key, whatever else the mandates hold.
MissingKeyPartIsEmptyString ==
    /\ \A c \in {"cst_1", "cst_2"} :
          deterministic_key(<<"mandate", c, None>>) =
              deterministic_key(<<"mandate", c, "">>)
    /\ \A i \in 1..Len(mandate_calls) : \A j \in 1..Len(mandate_calls) :
          (/\ owner_ids[i] = owner_ids[j]
           /\ mandates[i].mandate_reference \in {None, ""}
           /\ mandates[j].mandate_reference \in {None, ""})
             => (/\ ~mandate_calls[i].raises /\ ~mandate_calls[j].raises
                 /\ mandate_calls[i].key = mandate_calls[j].key)

\* C26 witness: two different mandates of one customer, both with an empty
\* mandate_reference, were imported with one key
TwoEmptyReferencesOneKey ==
    /\ Len(mandate_calls) = 2 /\ owner_ids[1] = owner_ids[2]
    /\ mandates[1].mandate_reference = "" /\ mandates[2].mandate_reference = ""
    /\ mandate_calls[1].payload.consumerAccount /= mandate_calls[2].payload.consumerAccount
    /\ mandate_calls[1].key = mandate_calls[2].key

\* a write step of the i-th row raised an error
SomeStepRaised(i) == \E k \in 1..Len(hist[i]) : hist[i][k].outcome = "raise"

\* the outcomes gathered so far that have status st
WithStatus(st) == {i \in 1..Len(out_rows) : out_rows[i].status = st}

\* C31: at every point of a run success_count + fail_count is the number of
\* outcomes gathered so far (each counter is the number of outcomes of its
\* status), and an outcome has status failed exactly when one of the write
\* steps of its row raised an error, and status ok otherwise.
CountsMatchOutcomes ==
    /\ success_count + fail_count = Len(out_rows)
    /\ success_count = Cardinality(WithStatus("ok"))
    /\ fail_count = Cardinality(WithStatus("failed"))
    /\ \A i \in 1..Len(out_rows) :
          /\ out_rows[i].status \in {"ok", "failed"}
          /\ out_rows[i].status = "failed" <=> SomeStepRaised(i)

\* C31 witness: a live run of two rows has counted one success and one
\* failure, the failure of a row whose subscription write raised
OneSuccessOneFailureCounted ==
    /\ ~test /\ pc = "done" /\ success_count = 1 /\ fail_count = 1
    /\ out_rows[1].status = "failed" /\ Len(hist[1]) = 3
    /\ out_rows[2].status = "ok"

\* the url of a page of the customer list
IsCustomersUrl(url) == url = CustomersUrl \/ url \in Hrefs

\* C32: a failure while the customer list is fetched is not absorbed:
\* get_all_subscriptions raises RuntimeError at once; it has then made no
\* subscriptions request, taken no customer and gathered no subscription,
\* and it returns nothing; and it raises for no other reason (a failed
\* subscriptions fetch never makes it raise).
CustomerListFailureRaises ==
    /\ []((level = "customers" /\ TrailComplete /\ Len(trail) > 0
           /\ ~trail[Len(trail)].ok)
             => (fpc = "end" /\ result.kind = "raise"))
    /\ []((result.kind = "raise") =>
             /\ fpc = "end" /\ level = "customers"
             /\ result.exc = "RuntimeError" /\ result.value = << >>
             /\ customers = << >> /\ ci = 0
             /\ fetches = << >> /\ all_subscriptions = << >>
             /\ \A i \in 1..Len(trail) : IsCustomersUrl(trail[i].url))
    /\ [][(result.kind = "raise") => UNCHANGED fvars]_vars

\* C32 witness: the second page of the customer list failed after a first
\* page with a customer, and get_all_subscriptions raised
CustomerListFailedOnSecondPage ==
    /\ fpc = "end" /\ result.kind = "raise" /\ Len(trail) = 2
    /\ trail[1].ok /\ Len(trail[1].items) = 1 /\ ~trail[2].ok

====
